---- MODULE Spec2Model ----
(***************************************************************************)
(* Image_To_Text: the caption-to-annotation pipeline of src/captioner.py   *)
(* (tag extraction, scene-context inference, description synthesis, topic  *)
(* recommendation, record assembly), the lazily built global captioner and *)
(* the batch loop of main.py.                                              *)
(*                                                                         *)
(* Python str values are TLA+ strings, Python lists are sequences, dicts   *)
(* are records.  An optional value is a sequence of length 0 or 1.         *)
(***************************************************************************)
EXTENDS Integers, Sequences, FiniteSets, TLC

VARIABLES
    hashSeed,        \* the interpreter's str-hash seed, drawn when a process starts
    now,             \* the wall clock read by datetime.now()
    args,            \* the arguments of the call under way
    ret,             \* what the call returned (<<>> before it returns)
    prev,            \* what the same call returned in the previous process
    run,             \* "first" or "second" process
    pc,              \* position of the caller
    captioner,       \* module global _captioner: <<>> is None, <<obj>> an instance
    constructed,     \* history: instances AdvancedImageCaptioner() built so far
    used,            \* history: instances that served a call
    lastCall,        \* history: what the latest API call did
    calls,           \* history: API calls made in this process
    images,          \* process_folder: the list list_images returned
    idx,             \* process_folder: images handled so far
    results,         \* process_folder: results["images"]
    simple_results   \* process_folder: simple_results["images"]

vars == <<hashSeed, now, args, ret, prev, run, pc, captioner, constructed, used,
          lastCall, calls, images, idx, results, simple_results>>

----------------------------------------------------------------------------
(* Bounds of the model *)

MaxPieces == 2       \* a caption is built from at most this many pieces
HashSeeds == 2       \* str-hash seeds a process may start with
MaxImages == 2       \* images list_images returns
MaxCalls == 3        \* API calls made in one process

Seeds == 1..HashSeeds

----------------------------------------------------------------------------
(* Strings *)

LowerCase == "abcdefghijklmnopqrstuvwxyz"
UpperCase == "ABCDEFGHIJKLMNOPQRSTUVWXYZ"
Digits == "0123456789"

CharsOf(s) == {SubSeq(s, k, k) : k \in 1..Len(s)}

\* the characters \w matches
WordChars == CharsOf(LowerCase) \cup CharsOf(UpperCase) \cup CharsOf(Digits) \cup {"_"}

\* str.lower() of one character
LowerChar(c) ==
    IF c \in CharsOf(UpperCase)
    THEN LET k == CHOOSE j \in 1..Len(UpperCase) : SubSeq(UpperCase, j, j) = c
         IN  SubSeq(LowerCase, k, k)
    ELSE c

RECURSIVE lower(_)
lower(s) == IF Len(s) = 0 THEN "" ELSE LowerChar(SubSeq(s, 1, 1)) \o lower(SubSeq(s, 2, Len(s)))

\* "w in text" for two strings: w occurs in text as a substring
Contains(text, w) ==
    \E k \in 1..(Len(text) - Len(w) + 1) : SubSeq(text, k, k + Len(w) - 1) = w

\* any(word in text for word in words)
AnyIn(words, text) == \E k \in 1..Len(words) : Contains(text, words[k])

Range(seq) == {seq[k] : k \in 1..Len(seq)}
NoDuplicates(seq) == \A j, k \in 1..Len(seq) : j # k => seq[j] # seq[k]

\* seq[:n]
Take(seq, n) == SubSeq(seq, 1, IF Len(seq) < n THEN Len(seq) ELSE n)

RECURSIVE Join(_, _)
\* sep.join(parts)
Join(sep, parts) ==
    IF Len(parts) = 0 THEN ""
    ELSE IF Len(parts) = 1 THEN parts[1]
    ELSE parts[1] \o sep \o Join(sep, Tail(parts))

----------------------------------------------------------------------------
(* The regular expressions  \b(?:t1|t2|...)\b  of extract_tags_from_caption *)

tag_patterns == <<
    [category |-> "people", terms |->
        <<"person", "people", "man", "woman", "child", "boy", "girl", "baby", "adult">>],
    [category |-> "actions", terms |->
        <<"running", "walking", "sitting", "standing", "jumping", "dancing", "playing",
          "working", "exercising", "cooking", "reading", "writing", "driving", "riding",
          "swimming", "flying", "climbing", "lifting", "pushing", "pulling", "throwing",
          "catching", "kicking", "hitting">>],
    [category |-> "sports", terms |->
        <<"football", "basketball", "tennis", "soccer", "baseball", "golf", "hockey",
          "volleyball", "boxing", "wrestling", "cycling", "skiing", "surfing",
          "skateboarding", "yoga", "gym", "fitness", "workout", "exercise",
          "bench press", "squats", "deadlift">>],
    [category |-> "locations", terms |->
        <<"park", "beach", "street", "road", "building", "house", "office", "school",
          "hospital", "restaurant", "store", "mall", "gym", "stadium", "field", "court",
          "track", "pool", "lake", "river", "mountain", "forest", "desert", "city",
          "town", "village">>],
    [category |-> "objects", terms |->
        <<"car", "truck", "bike", "bicycle", "motorcycle", "bus", "train", "plane",
          "boat", "chair", "table", "bed", "computer", "phone", "camera", "book", "ball",
          "bottle", "cup", "plate", "food", "tree", "flower", "animal", "dog", "cat",
          "bird">>],
    [category |-> "weather", terms |->
        <<"sunny", "cloudy", "rainy", "snowy", "foggy", "windy", "storm", "clear",
          "bright", "dark", "day", "night", "morning", "afternoon", "evening", "sunset",
          "sunrise">>],
    [category |-> "colors", terms |->
        <<"red", "blue", "green", "yellow", "orange", "purple", "pink", "black", "white",
          "gray", "grey", "brown", "silver", "gold">>],
    [category |-> "emotions", terms |->
        <<"happy", "sad", "angry", "excited", "surprised", "calm", "peaceful",
          "energetic", "tired", "focused", "concentrated", "relaxed">>] >>

\* is the character at position p of text a word character (FALSE outside the text)
IsWordAt(text, p) == p >= 1 /\ p <= Len(text) /\ SubSeq(text, p, p) \in WordChars

\* \b between the characters p-1 and p of text
Boundary(text, p) == IsWordAt(text, p - 1) # IsWordAt(text, p)

\* term matches at position p, with \b on both sides
TermMatchesAt(term, text, p) ==
    /\ p + Len(term) - 1 <= Len(text)
    /\ SubSeq(text, p, p + Len(term) - 1) = term
    /\ Boundary(text, p)
    /\ Boundary(text, p + Len(term))

\* the match the alternation gives at position p: its first alternative that
\* matches, "" when none does
MatchAt(terms, text, p) ==
    LET matching == IF Boundary(text, p)
                    THEN {k \in 1..Len(terms) : TermMatchesAt(terms[k], text, p)}
                    ELSE {}
    IN  IF matching = {} THEN ""
        ELSE terms[CHOOSE k \in matching : \A j \in matching : k <= j]

RECURSIVE FindAllFrom(_, _, _)
FindAllFrom(terms, text, p) ==
    IF p > Len(text) THEN <<>>
    ELSE LET m == MatchAt(terms, text, p)
         IN  IF m = "" THEN FindAllFrom(terms, text, p + 1)
             ELSE <<m>> \o FindAllFrom(terms, text, p + Len(m))

\* re.findall(pattern, text): the non-overlapping matches, left to right
re_findall(terms, text) == FindAllFrom(terms, text, 1)

----------------------------------------------------------------------------
(* list(set(xs)): the order of a set of strings follows the strings' hashes,  *)
(* which the interpreter salts with a seed it draws when the process starts.  *)

related_topic_lists == <<
    <<"fitness", "health", "exercise routines", "nutrition", "wellness">>,
    <<"outdoor activities", "nature", "travel", "recreation">>,
    <<"sports", "athletics", "competition", "team activities">>,
    <<"outdoor lifestyle", "fresh air benefits">>,
    <<"active lifestyle", "energy", "motivation">> >>

RECURSIVE Flatten(_)
Flatten(seqs) == IF Len(seqs) = 0 THEN <<>> ELSE Head(seqs) \o Flatten(Tail(seqs))

\* every string the program puts into a set
StringTable ==
    Flatten([k \in 1..Len(tag_patterns) |-> tag_patterns[k].terms]) \o Flatten(related_topic_lists)

\* the place of a string in the table (its first, where it is listed twice)
StringIndex ==
    [x \in Range(StringTable) |->
        CHOOSE k \in 1..Len(StringTable) :
            StringTable[k] = x /\ \A j \in 1..(k - 1) : StringTable[j] # x]

IndexOf(x) == StringIndex[x]

\* the slot hash(x) selects in a small hash table under a seed; the iteration
\* order of a set is slot order (colliding strings keep table order)
HashOf(x, seed) == (IndexOf(x) * seed) % 7

HashBefore(x, y, seed) ==
    \/ HashOf(x, seed) < HashOf(y, seed)
    \/ HashOf(x, seed) = HashOf(y, seed) /\ IndexOf(x) < IndexOf(y)

RECURSIVE SetIteration(_, _)
SetIteration(S, seed) ==
    IF S = {} THEN <<>>
    ELSE LET first == CHOOSE x \in S : \A y \in S \ {x} : HashBefore(x, y, seed)
         IN  <<first>> \o SetIteration(S \ {first}, seed)

\* list(set(xs))
list_set(xs, seed) == SetIteration(Range(xs), seed)

----------------------------------------------------------------------------
(* extract_tags_from_caption *)

RECURSIVE CollectTags(_, _)
\* the loop over tag_patterns.items(): tags.extend(re.findall(pattern, caption_lower))
CollectTags(k, caption_lower) ==
    IF k > Len(tag_patterns) THEN <<>>
    ELSE re_findall(tag_patterns[k].terms, caption_lower) \o CollectTags(k + 1, caption_lower)

extract_tags_keep_duplicates(caption, seed) == CollectTags(1, lower(caption))

extract_tags_from_caption(caption, seed) == list_set(CollectTags(1, lower(caption)), seed)

----------------------------------------------------------------------------
(* analyze_scene_context *)

default_context ==
    [setting |-> "unknown", time_of_day |-> "unknown", activity_level |-> "unknown",
     social_context |-> "unknown", mood |-> "neutral"]

\* One field's if/elif chain: the (keywords, value) branches in the order the
\* code tests them.
setting_branches == <<
    [words |-> <<"indoor", "inside", "room", "office", "house", "building">>, value |-> "indoor"],
    [words |-> <<"outdoor", "outside", "park", "street", "beach", "field", "forest">>, value |-> "outdoor"] >>

time_of_day_branches == <<
    [words |-> <<"night", "evening", "dark">>, value |-> "night"],
    [words |-> <<"morning", "sunrise">>, value |-> "morning"],
    [words |-> <<"afternoon", "day", "sunny", "bright">>, value |-> "day"],
    [words |-> <<"sunset", "dusk">>, value |-> "evening"] >>

\* the chain with the branches in the order the data model lists the values
time_of_day_branches_enumerated == <<
    [words |-> <<"morning", "sunrise">>, value |-> "morning"],
    [words |-> <<"afternoon", "day", "sunny", "bright">>, value |-> "day"],
    [words |-> <<"sunset", "dusk">>, value |-> "evening"],
    [words |-> <<"night", "evening", "dark">>, value |-> "night"] >>

activity_level_branches == <<
    [words |-> <<"running", "jumping", "dancing", "playing", "exercising", "working out">>, value |-> "high"],
    [words |-> <<"walking", "standing", "working">>, value |-> "medium"],
    [words |-> <<"sitting", "lying", "sleeping", "resting">>, value |-> "low"] >>

social_context_branches == <<
    [words |-> <<"group", "people", "crowd", "team", "family">>, value |-> "group"],
    [words |-> <<"person", "man", "woman", "individual">>, value |-> "individual"] >>

mood_branches == <<
    [words |-> <<"smiling", "happy", "celebrating", "laughing">>, value |-> "positive"],
    [words |-> <<"focused", "concentrated", "serious", "determined">>, value |-> "focused"],
    [words |-> <<"relaxed", "calm", "peaceful">>, value |-> "calm"] >>

\* if any(...): value1  elif any(...): value2 ...  (else the default stays)
FirstBranch(branches, caption_lower, default) ==
    IF \E k \in 1..Len(branches) : AnyIn(branches[k].words, caption_lower)
    THEN branches[CHOOSE k \in 1..Len(branches) :
                     /\ AnyIn(branches[k].words, caption_lower)
                     /\ \A j \in 1..(k - 1) : ~AnyIn(branches[j].words, caption_lower)].value
    ELSE default

analyze_scene_context_enumerated(caption) ==
    LET caption_lower == lower(caption)
    IN  [setting        |-> FirstBranch(setting_branches, caption_lower, default_context.setting),
         time_of_day    |-> FirstBranch(time_of_day_branches_enumerated, caption_lower, default_context.time_of_day),
         activity_level |-> FirstBranch(activity_level_branches, caption_lower, default_context.activity_level),
         social_context |-> FirstBranch(social_context_branches, caption_lower, default_context.social_context),
         mood           |-> FirstBranch(mood_branches, caption_lower, default_context.mood)]

analyze_scene_context(caption) ==
    LET caption_lower == lower(caption)
    IN  [setting        |-> FirstBranch(setting_branches, caption_lower, default_context.setting),
         time_of_day    |-> FirstBranch(time_of_day_branches, caption_lower, default_context.time_of_day),
         activity_level |-> FirstBranch(activity_level_branches, caption_lower, default_context.activity_level),
         social_context |-> FirstBranch(social_context_branches, caption_lower, default_context.social_context),
         mood           |-> FirstBranch(mood_branches, caption_lower, default_context.mood)]

----------------------------------------------------------------------------
(* create_ai_description *)

person_tags == <<"person", "people", "man", "woman">>

\* [x for x in xs if x not in excluded]
RECURSIVE FilterOut(_, _)
FilterOut(xs, excluded) ==
    IF Len(xs) = 0 THEN <<>>
    ELSE (IF Head(xs) \in Range(excluded) THEN <<>> ELSE <<Head(xs)>>)
         \o FilterOut(Tail(xs), excluded)

setting_part(context) ==
    IF context.setting # "unknown"
    THEN <<"This appears to be an " \o context.setting \o " scene.">> ELSE <<>>

time_of_day_part(context) ==
    IF context.time_of_day # "unknown"
    THEN <<"The time appears to be " \o context.time_of_day \o ".">> ELSE <<>>

activity_level_part(context) ==
    IF context.activity_level # "unknown"
    THEN <<"The activity level in the image is " \o context.activity_level \o ".">> ELSE <<>>

social_context_part(context) ==
    IF context.social_context # "unknown"
    THEN IF context.social_context = "group"
         THEN <<"This involves multiple people or a group setting.">>
         ELSE <<"This focuses on an individual person.">>
    ELSE <<>>

key_tags_part(tags) ==
    LET key_tags == FilterOut(tags, person_tags)
    IN  IF Len(tags) > 0 /\ Len(key_tags) > 0
        THEN <<"Key elements include: " \o Join(", ", Take(key_tags, 5)) \o ".">>
        ELSE <<>>

create_ai_description_no_time(caption, context, tags) ==
    Join(" ", <<caption>> \o setting_part(context) \o activity_level_part(context)
                \o social_context_part(context) \o key_tags_part(tags))

create_ai_description(caption, context, tags) ==
    Join(" ", <<caption>> \o setting_part(context) \o time_of_day_part(context)
                \o activity_level_part(context) \o social_context_part(context)
                \o key_tags_part(tags))

----------------------------------------------------------------------------
(* generate_related_topics *)

\* any(tag in tags for tag in wanted), tags a list
AnyTagIn(wanted, tags) == \E k \in 1..Len(wanted) : wanted[k] \in Range(tags)

\* the topics list after the five "if ...: topics.extend(...)" statements
AccumulatedTopics(tags, context) ==
       (IF AnyTagIn(<<"running", "exercise", "gym", "fitness">>, tags)
        THEN related_topic_lists[1] ELSE <<>>)
    \o (IF AnyTagIn(<<"beach", "outdoor", "park">>, tags)
        THEN related_topic_lists[2] ELSE <<>>)
    \o (IF AnyTagIn(<<"sports", "basketball", "football", "tennis">>, tags)
        THEN related_topic_lists[3] ELSE <<>>)
    \o (IF context.setting = "outdoor" THEN related_topic_lists[4] ELSE <<>>)
    \o (IF context.activity_level = "high" THEN related_topic_lists[5] ELSE <<>>)

generate_related_topics_uncapped(tags, context, seed) ==
    list_set(AccumulatedTopics(tags, context), seed)

generate_related_topics(tags, context, seed) ==
    Take(list_set(AccumulatedTopics(tags, context), seed), 5)

----------------------------------------------------------------------------
(* generate_ai_optimized_description *)

\* os.path.basename on a POSIX path: what follows the last "/"
basename(path) ==
    LET slashes == {k \in 1..Len(path) : SubSeq(path, k, k) = "/"}
    IN  IF slashes = {} THEN path
        ELSE SubSeq(path, (CHOOSE k \in slashes : \A j \in slashes : j <= k) + 1, Len(path))

TwoDigits(n) == SubSeq(Digits, (n \div 10) + 1, (n \div 10) + 1) \o SubSeq(Digits, (n % 10) + 1, (n % 10) + 1)

\* datetime.isoformat() of a clock reading (the reading is a second of one minute)
isoformat(clock) == "2024-01-01T00:00:" \o TwoDigits(clock % 60)

\* x < y for two strings, character by character in code-point order
CodePoints == " 0123456789ABCDEFGHIJKLMNOPQRSTUVWXYZ_abcdefghijklmnopqrstuvwxyz"
CodePoint(c) == CHOOSE k \in 1..Len(CodePoints) : SubSeq(CodePoints, k, k) = c

RECURSIVE StrLess(_, _)
StrLess(x, y) ==
    IF Len(y) = 0 THEN FALSE
    ELSE IF Len(x) = 0 THEN TRUE
    ELSE IF SubSeq(x, 1, 1) # SubSeq(y, 1, 1)
         THEN CodePoint(SubSeq(x, 1, 1)) < CodePoint(SubSeq(y, 1, 1))
         ELSE StrLess(SubSeq(x, 2, Len(x)), SubSeq(y, 2, Len(y)))

RECURSIVE SortSet(_)
SortSet(S) ==
    IF S = {} THEN <<>>
    ELSE LET least == CHOOSE x \in S : \A y \in S \ {x} : StrLess(x, y)
         IN  <<least>> \o SortSet(S \ {least})

\* sorted(xs) for a list of distinct strings
sorted(xs) == SortSet(Range(xs))

\* round(width / height, 2) in hundredths (no input of the model is a tie)
aspect_ratio(width, height) == (200 * width + height) \div (2 * height)

apology == "Unable to process this image. Please try again or use a different image."

\* the except branch: the record built from the path and the exception
error_record(image_path, message, clock) ==
    [filename       |-> basename(image_path),
     timestamp      |-> isoformat(clock),
     error          |-> message,
     ai_description |-> apology,
     captions       |-> <<>>,
     tags           |-> <<>>,
     scene_context  |-> <<>>,
     related_topics |-> <<"image analysis", "technical support">>]

\* the try branch once both captions are decoded; the image is the one
\* convert('RGB') returned, whose format is None, so "format" is "JPEG";
\* confidences are in hundredths
success_record(image_path, upstream, device, seed, clock) ==
    LET primary_caption == upstream.standard_caption
        tags == extract_tags_from_caption(primary_caption, seed)
        scene_context == analyze_scene_context(primary_caption)
    IN  [filename         |-> basename(image_path),
         timestamp        |-> isoformat(clock),
         image_properties |-> [width |-> upstream.width, height |-> upstream.height,
                               aspect_ratio |-> aspect_ratio(upstream.width, upstream.height),
                               format |-> "JPEG"],
         ai_description   |-> create_ai_description(primary_caption, scene_context, tags),
         captions         |-> << [type |-> "standard", text |-> upstream.standard_caption, confidence |-> 85],
                                 [type |-> "detailed", text |-> upstream.detailed_caption, confidence |-> 80] >>,
         tags             |-> sorted(tags),
         scene_context    |-> scene_context,
         related_topics   |-> generate_related_topics(tags, scene_context, seed),
         metadata         |-> [model_used |-> "BLIP-base", processing_device |-> device,
                               analysis_version |-> "1.0"]]

\* upstream: what image loading and the caption model do for this image, either
\* [raises |-> TRUE, message] or [raises |-> FALSE, the captions and the size]
generate_ai_optimized_description(image_path, upstream, device, seed, clock) ==
    IF upstream.raises
    THEN error_record(image_path, upstream.message, clock)
    ELSE success_record(image_path, upstream, device, seed, clock)

----------------------------------------------------------------------------
(* Inputs *)

RECURSIVE Concat(_)
Concat(pieces) == IF Len(pieces) = 0 THEN "" ELSE Head(pieces) \o Concat(Tail(pieces))

SeqsUpTo(S, n) == UNION {[1..k -> S] : k \in 0..n}

ExampleCaptions ==
    {"", "a man running in a park", "a group of people playing basketball at night",
     "a happy dog running in a sunny park at the beach", "a birthday cake",
     "A Woman at the GYM", "sunrise, then working out."}

TagPieces ==
    {"gym", "Gym ", "man", " man", "hu", "day ", "birth", "bench ", "press", "-", "_", "red"}

ScenePieces ==
    {"room", "bed", "park ", "morning ", "night", "day", "birth", "sunset ", "running ",
     "walking", "working", " out", "people ", "man", "hu", "happy ", "calm", "Sitting "}

TagCaptions == {Concat(p) : p \in SeqsUpTo(TagPieces, MaxPieces)} \cup ExampleCaptions
SceneCaptions == {Concat(p) : p \in SeqsUpTo(ScenePieces, MaxPieces)} \cup ExampleCaptions

SceneContexts ==
    [setting : {"indoor", "outdoor", "unknown"},
     time_of_day : {"morning", "day", "evening", "night", "unknown"},
     activity_level : {"high", "medium", "low", "unknown"},
     social_context : {"group", "individual", "unknown"},
     mood : {"positive", "focused", "calm", "neutral"}]

DescriptionCaptions == {"", "a dog. a park"}

DescriptionTagLists ==
    {<<>>, <<"person">>, <<"man", "people">>, <<"dog">>, <<"person", "dog">>,
     <<"dog", "woman", "park">>, <<"dog", "dog">>,
     <<"dog", "park", "ball", "tree", "red">>,
     <<"dog", "park", "ball", "tree", "red", "happy">>,
     <<"man", "dog", "park", "person", "ball", "tree", "red", "happy", "sunny">>}

TopicTagLists ==
    {<<>>, <<"dog">>, <<"running">>, <<"park">>, <<"basketball">>, <<"gym", "fitness">>,
     <<"running", "park">>, <<"beach", "tennis">>, <<"football", "exercise">>,
     <<"outdoor", "sports">>, <<"running", "park", "basketball">>,
     <<"dog", "gym", "beach", "gym", "sports">>}

ImagePaths == {"", "x.jpg", "data/x.jpg", "data/", "a/b.c/y.png"}
ErrorMessages == {"", "file not found", "cannot identify image file"}
ImageSizes == {<<640, 480>>, <<480, 640>>}
Devices == {"cpu", "cuda"}

Failures == {[raises |-> TRUE, message |-> m] : m \in ErrorMessages}

Successes(captions) ==
    {[raises |-> FALSE, standard_caption |-> c, detailed_caption |-> c \o " outside",
      width |-> s[1], height |-> s[2]] : c \in captions, s \in ImageSizes}

----------------------------------------------------------------------------
(* The functions called directly: one call in a process, then the same call *)
(* in a second process.                                                    *)

Idle ==
    /\ captioner = <<>> /\ constructed = 0 /\ used = {} /\ lastCall = <<>> /\ calls = 0
    /\ images = <<>> /\ idx = 0 /\ results = <<>> /\ simple_results = <<>>

InitCall(inputs, seeds) ==
    /\ args \in inputs
    /\ hashSeed \in seeds
    /\ now = 0
    /\ ret = <<>> /\ prev = <<>>
    /\ run = "first"
    /\ pc = "call"
    /\ Idle

Returns(value) ==
    /\ pc = "call"
    /\ ret' = <<value>>
    /\ pc' = "returned"
    /\ UNCHANGED <<hashSeed, args, prev, run, captioner, constructed, used, lastCall, calls,
                   images, idx, results, simple_results>>

\* the process ends; a new one starts, with a hash seed of its own
Restart ==
    /\ pc = "returned"
    /\ run = "first"
    /\ hashSeed' \in Seeds
    /\ prev' = ret
    /\ ret' = <<>>
    /\ run' = "second"
    /\ pc' = "call"
    /\ UNCHANGED <<now, args, captioner, constructed, used, lastCall, calls,
                   images, idx, results, simple_results>>

CallExtractTags ==
    /\ Returns(extract_tags_from_caption(args.caption, hashSeed))
    /\ UNCHANGED now

CallAnalyzeSceneContext ==
    /\ Returns(analyze_scene_context(args.caption))
    /\ UNCHANGED now

CallCreateAiDescription ==
    /\ Returns(create_ai_description(args.caption, args.context, args.tags))
    /\ UNCHANGED now

CallGenerateRelatedTopics ==
    /\ Returns(generate_related_topics(args.tags, args.context, hashSeed))
    /\ UNCHANGED now

CallGenerateAiOptimizedDescription ==
    /\ Returns(generate_ai_optimized_description(args.image_path, args.upstream,
                                                 args.device, hashSeed, now))
    /\ now' = now + 1

InitTags == InitCall([caption : TagCaptions], Seeds)
NextTags == CallExtractTags \/ Restart
SpecTags == InitTags /\ [][NextTags]_vars

InitScene == InitCall([caption : SceneCaptions], Seeds)
NextScene == CallAnalyzeSceneContext \/ Restart
SpecScene == InitScene /\ [][NextScene]_vars

InitDescribe ==
    InitCall([caption : DescriptionCaptions, context : SceneContexts, tags : DescriptionTagLists], {1})
NextDescribe == CallCreateAiDescription
SpecDescribe == InitDescribe /\ [][NextDescribe]_vars

InitTopics == InitCall([tags : TopicTagLists, context : SceneContexts], Seeds)
NextTopics == CallGenerateRelatedTopics
SpecTopics == InitTopics /\ [][NextTopics]_vars

Init ==
    InitCall([image_path : ImagePaths, upstream : Failures \cup Successes(ExampleCaptions),
              device : Devices], Seeds)
Next == CallGenerateAiOptimizedDescription \/ Restart
Spec == Init /\ [][Next]_vars

----------------------------------------------------------------------------
(* The module-level API: get_captioner, image_to_caption, image_to_ai_description *)

\* what AdvancedImageCaptioner() does when it is called: it raises (the model
\* cannot be loaded) or returns a new instance on some device
Constructions(n) ==
    {[raises |-> TRUE]} \cup {[raises |-> FALSE, instance |-> [id |-> n + 1, device |-> d]] : d \in Devices}

get_captioner_always_constructs(global, construction) ==
    IF construction.raises
    THEN [raised |-> TRUE, attempted |-> TRUE, global |-> global]
    ELSE [raised |-> FALSE, attempted |-> TRUE, global |-> <<construction.instance>>]

\* get_captioner() with _captioner = global: the new value of the global, whether
\* the constructor ran and whether its exception left the function
get_captioner(global, construction) ==
    IF global = <<>>
    THEN IF construction.raises
         THEN [raised |-> TRUE, attempted |-> TRUE, global |-> global]
         ELSE [raised |-> FALSE, attempted |-> TRUE, global |-> <<construction.instance>>]
    ELSE [raised |-> FALSE, attempted |-> FALSE, global |-> global]

\* record.get("captions", [{}])[0].get("text", fallback)
simple_caption(record, fallback) ==
    LET captions == IF "captions" \in DOMAIN record THEN record.captions ELSE << <<>> >>
    IN  IF Len(captions) = 0
        THEN [raised |-> TRUE, exception |-> "IndexError"]
        ELSE [raised |-> FALSE,
              text |-> IF "text" \in DOMAIN captions[1] THEN captions[1].text ELSE fallback]

ApiPaths == {"x.jpg", "data/"}
ApiUpstreams == Failures \cup Successes({"a dog"})

\* the part image_to_caption and image_to_ai_description share: get the captioner,
\* then run it on the image
DescribeWith(fn, image_path, upstream, construction) ==
    LET got == get_captioner(captioner, construction)
    IN  /\ captioner' = got.global
        /\ constructed' = constructed + (IF got.attempted /\ ~got.raised THEN 1 ELSE 0)
        /\ calls' = calls + 1
        /\ IF got.raised
           THEN /\ lastCall' = <<[fn |-> fn, found |-> captioner, attempted |-> got.attempted,
                                  raised |-> "constructor"]>>
                /\ ret' = <<>>
                /\ UNCHANGED <<used, now>>
           ELSE LET record == generate_ai_optimized_description(
                                  image_path, upstream, got.global[1].device, hashSeed, now)
                    simple == simple_caption(record, "Unable to generate caption")
                IN  /\ used' = used \cup {got.global[1]}
                    /\ now' = now + 1
                    /\ IF fn = "image_to_caption"
                       THEN /\ lastCall' = <<[fn |-> fn, found |-> captioner,
                                              attempted |-> got.attempted,
                                              raised |-> IF simple.raised THEN simple.exception ELSE "",
                                              record |-> record]>>
                            /\ ret' = IF simple.raised THEN <<>> ELSE <<simple.text>>
                       ELSE /\ lastCall' = <<[fn |-> fn, found |-> captioner,
                                              attempted |-> got.attempted, raised |-> "",
                                              record |-> record]>>
                            /\ ret' = <<record>>

ImageToCaption ==
    /\ pc = "api"
    /\ calls < MaxCalls
    /\ \E image_path \in ApiPaths, upstream \in ApiUpstreams,
          construction \in Constructions(constructed) :
            DescribeWith("image_to_caption", image_path, upstream, construction)
    /\ UNCHANGED <<hashSeed, args, prev, run, pc, images, idx, results, simple_results>>

ImageToAiDescription ==
    /\ pc = "api"
    /\ calls < MaxCalls
    /\ \E image_path \in ApiPaths, upstream \in ApiUpstreams,
          construction \in Constructions(constructed) :
            DescribeWith("image_to_ai_description", image_path, upstream, construction)
    /\ UNCHANGED <<hashSeed, args, prev, run, pc, images, idx, results, simple_results>>

InitApi ==
    /\ hashSeed \in Seeds
    /\ now = 0
    /\ args = <<>> /\ ret = <<>> /\ prev = <<>>
    /\ run = "first"
    /\ pc = "api"
    /\ Idle

NextApi == ImageToCaption \/ ImageToAiDescription
SpecApi == InitApi /\ [][NextApi]_vars

----------------------------------------------------------------------------
(* process_folder *)

\* what list_images can return: paths of image files of the folder, each once
FolderImages == {"data/a.png", "data/b.jpg", "data/c.JPEG"}

ImageLists == {l \in SeqsUpTo(FolderImages, MaxImages) : NoDuplicates(l)}

ResultsAfterSkippingErrors(list, record) ==
    IF "error" \in DOMAIN record THEN list ELSE Append(list, record)

\* results["images"].append(ai_result)
ResultsAfter(list, record) == Append(list, record)

\* lines 8-22: list the folder, return when it holds no image
ProcessFolderStart ==
    /\ pc = "start"
    /\ pc' = IF images = <<>> THEN "returned" ELSE "loop"
    /\ UNCHANGED <<hashSeed, now, args, ret, prev, run, captioner, constructed, used,
                   lastCall, calls, images, idx, results, simple_results>>

\* lines 24-37: one iteration of the loop over the images; args keeps what the
\* upstream did for each image handled
LoopStep ==
    /\ pc = "loop"
    /\ idx < Len(images)
    /\ \E upstream \in ApiUpstreams, construction \in Constructions(constructed) :
        LET got == get_captioner(captioner, construction)
        IN  /\ captioner' = got.global
            /\ constructed' = constructed + (IF got.attempted /\ ~got.raised THEN 1 ELSE 0)
            /\ calls' = calls + 1
            /\ IF got.raised
               THEN /\ pc' = "raised"
                    /\ lastCall' = <<[fn |-> "image_to_ai_description", found |-> captioner,
                                      attempted |-> got.attempted, raised |-> "constructor"]>>
                    /\ UNCHANGED <<used, now, args, idx, results>>
               ELSE LET record == generate_ai_optimized_description(
                                      images[idx + 1], upstream, got.global[1].device,
                                      hashSeed, now)
                    IN  /\ used' = used \cup {got.global[1]}
                        /\ now' = now + 1
                        /\ args' = Append(args, upstream)
                        /\ results' = ResultsAfter(results, record)
                        /\ idx' = idx + 1
                        /\ lastCall' = <<[fn |-> "image_to_ai_description", found |-> captioner,
                                          attempted |-> got.attempted, raised |-> "",
                                          record |-> record]>>
                        /\ pc' = IF idx + 1 = Len(images) THEN "save" ELSE "loop"
    /\ UNCHANGED <<hashSeed, ret, prev, run, images, simple_results>>

\* lines 39-44: results written to the output file; ret lists the files written
SaveResults ==
    /\ pc = "save"
    /\ ret' = Append(ret, [file |-> "ai_captions.json", images |-> results])
    /\ pc' = "simple"
    /\ UNCHANGED <<hashSeed, now, args, prev, run, captioner, constructed, used,
                   lastCall, calls, images, idx, results, simple_results>>

\* the entries the loop of lines 50-54 appends before it ends or raises
RECURSIVE SimpleEntries(_)
SimpleEntries(list) ==
    IF Len(list) = 0 THEN <<>>
    ELSE LET simple == simple_caption(Head(list), "No caption available")
         IN  IF simple.raised THEN <<>>
             ELSE <<[filename |-> Head(list).filename, caption |-> simple.text]>>
                  \o SimpleEntries(Tail(list))

\* lines 46-59: the simple format built and written
SimpleFormat ==
    /\ pc = "simple"
    /\ simple_results' = SimpleEntries(results)
    /\ IF \E k \in 1..Len(results) : simple_caption(results[k], "No caption available").raised
       THEN /\ pc' = "raised"
            /\ lastCall' = <<[fn |-> "process_folder", raised |-> "IndexError"]>>
            /\ UNCHANGED ret
       ELSE /\ pc' = "returned"
            /\ ret' = Append(ret, [file |-> "captions.json", images |-> SimpleEntries(results)])
            /\ UNCHANGED lastCall
    /\ UNCHANGED <<hashSeed, now, args, prev, run, captioner, constructed, used,
                   calls, images, idx, results>>

InitFolder ==
    /\ hashSeed \in Seeds
    /\ now = 0
    /\ args = <<>> /\ ret = <<>> /\ prev = <<>>
    /\ run = "first"
    /\ pc = "start"
    /\ captioner = <<>> /\ constructed = 0 /\ used = {} /\ lastCall = <<>> /\ calls = 0
    /\ images \in ImageLists
    /\ idx = 0 /\ results = <<>> /\ simple_results = <<>>

NextFolder == ProcessFolderStart \/ LoopStep \/ SaveResults \/ SimpleFormat
SpecFolder == InitFolder /\ [][NextFolder]_vars

----------------------------------------------------------------------------
(* Properties *)

\* number of places where w occurs in text
CountOf(text, w) ==
    Cardinality({k \in 1..(Len(text) - Len(w) + 1) : SubSeq(text, k, k + Len(w) - 1) = w})

\* t occurs in text as a whole word: neither preceded nor followed by a word character
OccursAsWord(t, text) ==
    \E p \in 1..(Len(text) - Len(t) + 1) :
        /\ SubSeq(text, p, p + Len(t) - 1) = t
        /\ (p = 1 \/ SubSeq(text, p - 1, p - 1) \notin WordChars)
        /\ (p + Len(t) > Len(text) \/ SubSeq(text, p + Len(t), p + Len(t)) \notin WordChars)

\* value belongs to a group with a keyword in text that no group with a keyword
\* in text precedes in the order of branches
WinsOver(branches, text, value) ==
    \A j \in 1..Len(branches) :
        AnyIn(branches[j].words, text) =>
            \E i \in 1..j : branches[i].value = value /\ AnyIn(branches[i].words, text)

\* keywords of two or more groups of the field occur in text
Competing(branches, text) ==
    Cardinality({j \in 1..Len(branches) : AnyIn(branches[j].words, text)}) >= 2

\* some keyword of a group that assigns value is a whole word of text
WordOfGroup(branches, text, value) ==
    \E j \in 1..Len(branches) :
        /\ branches[j].value = value
        /\ \E k \in 1..Len(branches[j].words) : OccursAsWord(branches[j].words[k], text)

ErrorKeys ==
    {"filename", "timestamp", "error", "ai_description", "captions", "tags",
     "scene_context", "related_topics"}

\* C1: whenever image loading or caption generation fails, for every error
\* message and every image path, the returned record has a non-empty filename,
\* a non-empty timestamp and a non-empty error, tags = [] and captions = [],
\* scene_context = {}, the fixed apology, the two fallback topics, and no
\* success field.
C1_ErrorRecordComplete ==
    (pc = "returned" /\ args.upstream.raises) =>
        LET record == ret[1]
        IN  /\ DOMAIN record = ErrorKeys
            /\ record.filename # ""
            /\ record.timestamp # ""
            /\ record.error # ""
            /\ record.tags = <<>>
            /\ record.captions = <<>>
            /\ record.scene_context = <<>>
            /\ record.ai_description = apology
            /\ record.related_topics = <<"image analysis", "technical support">>

\* C2: the loop of process_folder handles the images once each, in input order,
\* and appends one record per image, an error record for an image that failed
\* upstream; when the loop has ended there are as many records as images.
C2_OneRecordPerImage ==
    /\ idx <= Len(images)
    /\ Len(results) = idx
    /\ Len(args) = idx
    /\ \A k \in 1..idx :
        /\ k <= Len(results)
        /\ results[k].filename = basename(images[k])
        /\ ("error" \in DOMAIN results[k]) <=> args[k].raises
        /\ args[k].raises => results[k].error = args[k].message
        /\ ~args[k].raises => results[k].captions[1].text = args[k].standard_caption
    /\ pc \in {"save", "simple", "returned"} => Len(results) = Len(images)

\* the loop has ended on a batch whose first image failed and whose second did not
C2_Witness ==
    /\ pc = "save"
    /\ Len(images) = 2
    /\ Len(results) = 2
    /\ args[1].raises
    /\ ~args[2].raises

\* C3: for every tag list and scene context, generate_related_topics returns at
\* most 5 topics, none of them twice.
C3_AtMostFiveDistinctTopics ==
    pc = "returned" => (Len(ret[1]) <= 5 /\ NoDuplicates(ret[1]))

\* all five trigger conditions fire, and five topics are returned
C3_Witness ==
    /\ pc = "returned"
    /\ Len(AccumulatedTopics(args.tags, args.context)) = 18
    /\ Len(ret[1]) = 5

\* C4: extract_tags_from_caption returns no term twice, every returned term is
\* a vocabulary term of some category that occurs in the lower-cased caption as
\* a whole word, and the empty caption gives no tag.
C4_TagsAreDistinctWholeWords ==
    pc = "returned" =>
        LET tags == ret[1]
            text == lower(args.caption)
        IN  /\ NoDuplicates(tags)
            /\ \A t \in Range(tags) :
                /\ \E k \in 1..Len(tag_patterns) : t \in Range(tag_patterns[k].terms)
                /\ OccursAsWord(t, text)
            /\ args.caption = "" => tags = <<>>

\* "gym", a term of two categories, occurs twice (once capitalised) and is returned once
C4_Witness ==
    /\ pc = "returned"
    /\ args.caption = "Gym gym"
    /\ ret[1] = <<"gym">>

\* C5 as stated: when keywords of two or more groups of a field occur in the
\* caption, the field gets the value of the group that comes first in the order
\* the data model lists the values (time_of_day: morning, day, evening, night),
\* and a second run gives the same result.
C5_EnumeratedPriority ==
    pc = "returned" =>
        LET text == lower(args.caption)
            context == ret[1]
        IN  /\ Competing(setting_branches, text) => WinsOver(setting_branches, text, context.setting)
            /\ Competing(time_of_day_branches_enumerated, text) =>
                   WinsOver(time_of_day_branches_enumerated, text, context.time_of_day)
            /\ Competing(activity_level_branches, text) =>
                   WinsOver(activity_level_branches, text, context.activity_level)
            /\ Competing(social_context_branches, text) =>
                   WinsOver(social_context_branches, text, context.social_context)
            /\ Competing(mood_branches, text) => WinsOver(mood_branches, text, context.mood)
            /\ run = "second" => ret = prev

\* C5 amended: the priority is the order the code tests the groups in, which for
\* time_of_day is night, morning, day, evening; a keyword counts when it occurs
\* anywhere in the lower-cased caption; a second run gives the same result.
C5_CodePriority ==
    pc = "returned" =>
        LET text == lower(args.caption)
            context == ret[1]
        IN  /\ Competing(setting_branches, text) => WinsOver(setting_branches, text, context.setting)
            /\ Competing(time_of_day_branches, text) =>
                   WinsOver(time_of_day_branches, text, context.time_of_day)
            /\ Competing(activity_level_branches, text) =>
                   WinsOver(activity_level_branches, text, context.activity_level)
            /\ Competing(social_context_branches, text) =>
                   WinsOver(social_context_branches, text, context.social_context)
            /\ Competing(mood_branches, text) => WinsOver(mood_branches, text, context.mood)
            /\ run = "second" => ret = prev

\* a caption with a morning keyword and a night keyword, analysed in the second process
C5_Witness ==
    /\ pc = "returned"
    /\ run = "second"
    /\ args.caption = "morning night"
    /\ ret[1].time_of_day = "night"

\* C6: the pipeline run twice on the same primary caption and image properties
\* gives two records equal in every field but timestamp, whatever the
\* iteration order of the sets.
C6_SameRecordTwice ==
    (pc = "returned" /\ run = "second") =>
        [ret[1] EXCEPT !.timestamp = ""] = [prev[1] EXCEPT !.timestamp = ""]

\* C7: a scene-context field is non-default only if a whole word of the caption
\* is a keyword of a group that assigns the value; a keyword that is only part
\* of a longer word sets nothing.
C7_WholeWordsOnly ==
    pc = "returned" =>
        LET text == lower(args.caption)
            context == ret[1]
        IN  /\ context.setting # "unknown" => WordOfGroup(setting_branches, text, context.setting)
            /\ context.time_of_day # "unknown" =>
                   WordOfGroup(time_of_day_branches, text, context.time_of_day)
            /\ context.activity_level # "unknown" =>
                   WordOfGroup(activity_level_branches, text, context.activity_level)
            /\ context.social_context # "unknown" =>
                   WordOfGroup(social_context_branches, text, context.social_context)
            /\ context.mood # "neutral" => WordOfGroup(mood_branches, text, context.mood)

\* what create_ai_description put after the caption
Appended == SubSeq(ret[1], Len(args.caption) + 1, Len(ret[1]))

KeyTagsRemain == \E k \in 1..Len(args.tags) : args.tags[k] \notin {"person", "people", "man", "woman"}

NonDefault(fields) == {f \in fields : args.context[f] # default_context[f]}

\* C8 as stated: the result is the caption followed by one sentence for each of
\* the five scene-context fields that is not default, plus one key-elements
\* sentence iff a non-person tag remains; with every field default and no such
\* tag it is the caption.
C8_FiveFieldSentences ==
    pc = "returned" =>
        /\ SubSeq(ret[1], 1, Len(args.caption)) = args.caption
        /\ CountOf(Appended, ".") =
               Cardinality(NonDefault({"setting", "time_of_day", "activity_level",
                                       "social_context", "mood"}))
               + (IF KeyTagsRemain THEN 1 ELSE 0)

\* C8 amended: one sentence for each of the four fields setting, time_of_day,
\* activity_level and social_context that is not default (mood adds none), each
\* in its fixed wording and after a single space, plus one key-elements sentence
\* of at most 5 tags iff a non-person tag remains; with the four fields default
\* and no such tag the result is the caption.
C8_FourFieldSentences ==
    pc = "returned" =>
        LET context == args.context
            appended == Appended
            sentences == Cardinality(NonDefault({"setting", "time_of_day", "activity_level",
                                                 "social_context"}))
                         + (IF KeyTagsRemain THEN 1 ELSE 0)
        IN  /\ SubSeq(ret[1], 1, Len(args.caption)) = args.caption
            /\ CountOf(appended, ".") = sentences
            /\ CountOf(appended, ". ") = (IF sentences = 0 THEN 0 ELSE sentences - 1)
            /\ ~Contains(appended, "  ")
            /\ sentences = 0 => ret[1] = args.caption
            /\ sentences > 0 => SubSeq(appended, 1, 1) = " "
            /\ context.setting # "unknown" =>
                   Contains(appended, " This appears to be an " \o context.setting \o " scene.")
            /\ context.time_of_day # "unknown" =>
                   Contains(appended, " The time appears to be " \o context.time_of_day \o ".")
            /\ context.activity_level # "unknown" =>
                   Contains(appended, " The activity level in the image is "
                                      \o context.activity_level \o ".")
            /\ context.social_context = "group" =>
                   Contains(appended, " This involves multiple people or a group setting.")
            /\ context.social_context = "individual" =>
                   Contains(appended, " This focuses on an individual person.")
            /\ CountOf(appended, " Key elements include: ") = (IF KeyTagsRemain THEN 1 ELSE 0)
            /\ CountOf(appended, ", ") <= 4
            /\ KeyTagsRemain =>
                   LET first == CHOOSE k \in 1..Len(args.tags) :
                                    /\ args.tags[k] \notin {"person", "people", "man", "woman"}
                                    /\ \A j \in 1..(k - 1) :
                                           args.tags[j] \in {"person", "people", "man", "woman"}
                   IN  Contains(appended, " Key elements include: " \o args.tags[first])

\* four fields and the mood are set and more than five non-person tags are given
C8_Witness ==
    /\ pc = "returned"
    /\ NonDefault({"setting", "time_of_day", "activity_level", "social_context", "mood"})
         = {"setting", "time_of_day", "activity_level", "social_context", "mood"}
    /\ Len(args.tags) = 9
    /\ CountOf(Appended, ".") = 5

\* C9: the simple caption of a record is the text of its first caption variant,
\* else the fallback string; for an error record it is the fallback, nothing is
\* raised, and process_folder completes with one simple entry per image.
C9_SimpleCaptionFallsBack ==
    /\ \A k \in 1..Len(results) :
        LET simple == simple_caption(results[k], "No caption available")
        IN  /\ ~simple.raised
            /\ simple.text = (IF Len(results[k].captions) > 0
                              THEN results[k].captions[1].text ELSE "No caption available")
    /\ ~(pc = "raised" /\ lastCall[1].fn = "process_folder")
    /\ (pc = "returned" /\ images # <<>>) => Len(simple_results) = Len(images)

\* C10: the captioner is constructed only by a call that finds the global
\* unset, at most one construction ever succeeds, every call is served by that
\* one instance, and a construction that raises leaves the global unset (so
\* that the next call constructs again).
C10_SingleCaptioner ==
    /\ constructed <= 1
    /\ Cardinality(used) <= 1
    /\ (captioner = <<>>) <=> (constructed = 0)
    /\ captioner # <<>> => used \subseteq {captioner[1]}
    /\ lastCall # <<>> =>
        /\ lastCall[1].attempted <=> (lastCall[1].found = <<>>)
        /\ lastCall[1].raised = "constructor" => captioner = <<>>
        /\ lastCall[1].raised # "constructor" => captioner # <<>>

\* a call was served by the instance an earlier call built
C10_Witness ==
    /\ calls = MaxCalls
    /\ constructed = 1
    /\ lastCall[1].found # <<>>
    /\ ~lastCall[1].attempted
    /\ used = {captioner[1]}

====
